---- MODULE Spec2Model ----
(***************************************************************************)
(* Model of src/main.py: the Telegram group manager.                       *)
(*                                                                         *)
(* Texts are tuples of one-character strings, so that lower(), strip(),    *)
(* len() and the substring tests are computed as the Python code computes  *)
(* them.  Optional values (None) are records [isNone, s].                  *)
(*                                                                         *)
(* Two specifications share the variables.  Spec is the message pipeline   *)
(* (startup handshake, update arrival, handle_message and its awaits).     *)
(* SchedSpec is the daily news job (wall clock, the scheduler's job        *)
(* processing, post_daily_news).  The handlers never touch the scheduler's *)
(* job store and the job never touches a handler's state.                  *)
(***************************************************************************)
EXTENDS Integers, Sequences, FiniteSets, TLC

\* ---------------------------------------------------------------- bounds
MaxMsgs == 2      \* updates received in one run
MaxDay == 2       \* calendar dates 0..MaxDay

\* ------------------------------------------------------- program constants
MinLen == 5       \* should_respond: len(text.strip()) < 5
FireHour == 9     \* CronTrigger(hour=9, ...)
FireMinute == 0   \* CronTrigger(..., minute=0)

\* --------------------------------------------------------- optional values
NoneVal == [isNone |-> TRUE, s |-> <<>>]
Some(s) == [isNone |-> FALSE, s |-> s]
\* Python truthiness of an Optional[str]
Truthy(o) == ~o.isNone /\ Len(o.s) > 0
\* Python "a or b"
PyOr(a, b) == IF Truthy(a) THEN a ELSE b

\* ------------------------------------------------------------ str methods
Upper == <<"A","B","C","D","E","F","G","H","I","J","K","L","M",
           "N","O","P","Q","R","S","T","U","V","W","X","Y","Z">>
Lowers == <<"a","b","c","d","e","f","g","h","i","j","k","l","m",
            "n","o","p","q","r","s","t","u","v","w","x","y","z">>
LowerChar(c) ==
    IF \E k \in 1..26 : Upper[k] = c
    THEN Lowers[CHOOSE k \in 1..26 : Upper[k] = c]
    ELSE c
lower(s) == [k \in 1..Len(s) |-> LowerChar(s[k])]
Whitespace == {" ", "\t", "\n"}
RECURSIVE lstrip(_)
lstrip(s) == IF Len(s) > 0 /\ s[1] \in Whitespace THEN lstrip(Tail(s)) ELSE s
RECURSIVE rstrip(_)
rstrip(s) ==
    IF Len(s) > 0 /\ s[Len(s)] \in Whitespace
    THEN rstrip(SubSeq(s, 1, Len(s) - 1)) ELSE s
strip(s) == rstrip(lstrip(s))
\* Python "p in s" for strings
Contains(s, p) ==
    \E k \in 1..(Len(s) - Len(p) + 1) : SubSeq(s, k, k + Len(p) - 1) = p
\* Python str(int)
Digits == <<"0","1","2","3","4","5","6","7","8","9">>
RECURSIVE NatStr(_)
NatStr(n) ==
    IF n < 10 THEN <<Digits[n + 1]>>
    ELSE NatStr(n \div 10) \o <<Digits[(n % 10) + 1]>>
Str(n) == IF n < 0 THEN <<"-">> \o NatStr(0 - n) ELSE NatStr(n)

\* --------------------------------------------------------- configuration
\* GROUP_CHAT_ID = os.getenv('GROUP_CHAT_ID'): a string
GROUP_CHAT_ID == <<"-", "1", "0", "0">>

\* --------------------------------------------------------- pattern lists
inappropriate_patterns ==
    { <<"h", "t", "t", "p", ":", "/", "/">>,
      <<"h", "t", "t", "p", "s", ":", "/", "/">>,
      <<"w", "w", "w", ".">>,
      <<".", "c", "o", "m">>,
      <<"b", "u", "y", " ", "n", "o", "w">>,
      <<"c", "l", "i", "c", "k", " ", "h", "e", "r", "e">>,
      <<"f", "r", "e", "e", " ", "m", "o", "n", "e", "y">>,
      <<"l", "o", "t", "t", "e", "r", "y">>,
      <<"c", "a", "s", "i", "n", "o">>,
      <<"m", "a", "k", "e", " ", "m", "o", "n", "e", "y", " ", "f", "a", "s", "t">>,
      <<"w", "o", "r", "k", " ", "f", "r", "o", "m", " ", "h", "o", "m", "e">>,
      <<"e", "a", "r", "n", " ", "$">>,
      <<"g", "e", "t", " ", "r", "i", "c", "h">>,
      <<"b", "i", "t", "c", "o", "i", "n", " ", "i", "n", "v", "e", "s", "t", "m", "e", "n", "t">>,
      <<"c", "r", "y", "p", "t", "o", " ", "i", "n", "v", "e", "s", "t", "m", "e", "n", "t">> }

question_indicators ==
    { <<"?">>,
      <<"w", "h", "a", "t">>,
      <<"h", "o", "w">>,
      <<"w", "h", "y">>,
      <<"w", "h", "e", "n">>,
      <<"w", "h", "e", "r", "e">>,
      <<"w", "h", "o">>,
      <<"t", "e", "l", "l", " ", "m", "e">>,
      <<"e", "x", "p", "l", "a", "i", "n">>,
      <<"h", "e", "l", "p", " ", "w", "i", "t", "h">> }

greetings ==
    { <<"h", "e", "l", "l", "o", " ", "b", "o", "t">>,
      <<"h", "i", " ", "b", "o", "t">>,
      <<"h", "e", "y", " ", "b", "o", "t">>,
      <<"g", "o", "o", "d", " ", "m", "o", "r", "n", "i", "n", "g", " ", "b", "o", "t">>,
      <<"g", "o", "o", "d", " ", "e", "v", "e", "n", "i", "n", "g", " ", "b", "o", "t">> }

\* ------------------------------------------------------ inputs of a run
TxtEmpty == <<>>
TxtGreeting == <<"h", "i", " ", "b", "o", "t">>
TxtShortQ == <<"w", "h", "y", "?">>
TxtSpamUpper == <<"B", "u", "y", " ", "N", "o", "w">>
TxtSpamQuestion == <<"w", "h", "a", "t", " ", "W", "W", "W", ".", "x">>
TxtSpamMention == <<"@", "z", "b", "o", "t", " ", "a", ".", "c", "o", "m">>
TxtSpamGreeting == <<"h", "i", " ", "b", "o", "t", " ", ".", "C", "O", "M">>
TxtPlain == <<"n", "i", "c", "e", " ", "d", "a", "y">>
TxtMention == <<"@", "Z", "b", "o", "t", " ", "o", "k">>
TxtMentionQuestion == <<"@", "Z", "b", "o", "t", " ", "w", "h", "a", "t", "?">>
TxtQuestionGreeting == <<"h", "i", " ", "b", "o", "t", " ", "w", "h", "y">>
TxtShortSpam == <<".", "c", "o", "m">>
TxtPadded == <<" ", " ", "o", "k", "?", " ", " ">>
Texts ==
    { TxtEmpty, TxtGreeting, TxtShortQ, TxtSpamQuestion, TxtSpamMention,
      TxtSpamGreeting, TxtPlain, TxtMention, TxtPadded, TxtMentionQuestion,
      TxtQuestionGreeting, TxtShortSpam }
\* (message.text, message.caption) as the transport delivers them
MsgContents ==
    { [text |-> Some(t), caption |-> NoneVal] : t \in Texts }
    \cup { [text |-> NoneVal, caption |-> Some(TxtSpamUpper)] }
TargetChatId == 0 - 100
ChatIds == {TargetChatId, 7}
\* from_user.first_name
NameAnn == <<"A", "n", "n">>
NameBo == <<"B", "o">>
\* An update: chat_id, from_user.is_bot, from_user.first_name, text, caption,
\* and whether reply_to_message is a message of this bot.
Message(c, b, n, mc, r) ==
    [chat_id |-> c, is_bot |-> b, first_name |-> n, text |-> mc.text,
     caption |-> mc.caption, reply_to_bot |-> r]
TextOnly(t) == [text |-> Some(t), caption |-> NoneVal]
\* the authors of the target chat's messages
AuthorOf(mc) == IF mc = TextOnly(TxtGreeting) THEN NameBo ELSE NameAnn
\* the texts that bots and other chats send in the model
ForeignTexts == { TxtSpamQuestion, TxtGreeting }
\* the texts that are sent as replies to a message of the bot
ReplyTexts == { TxtPlain }
Messages ==
    { Message(TargetChatId, FALSE, AuthorOf(mc), mc, FALSE) : mc \in MsgContents }
    \cup { Message(TargetChatId, FALSE, NameAnn, TextOnly(t), TRUE) : t \in ReplyTexts }
    \cup { Message(c, TRUE, NameAnn, TextOnly(t), FALSE) :
              c \in ChatIds, t \in ForeignTexts }
    \cup { Message(c, FALSE, NameAnn, TextOnly(t), FALSE) :
              c \in ChatIds \ {TargetChatId}, t \in ForeignTexts }
\* username reported by get_me()
Usernames == { <<"z", "b", "o", "t">>, <<"Z", "b", "o", "t">> }
\* what the completion returns as message.content
GenContents == { <<>>, <<"o", "k", " ">> }

VARIABLES
    main_pc,        \* position of main(): initialize_bot, setup_scheduler, run_polling
    bot_username,   \* TelegramGroupManager.bot_username
    msgs,           \* updates received so far, in arrival order
    pc,             \* per update: position of its handle_message call
    outcome,        \* per update: the branch handle_message took
    trigger,        \* per update: the check of should_respond that returned True
    response,       \* per update: local variable response of handle_message
    calls,          \* collaborator calls issued so far, in order
    logged,         \* logger.error / logger.info records of the handlers
    escaped,        \* updates whose handler let an exception out
    now,            \* wall clock: [day, slot]
    next_run_time,  \* the daily_news job's next fire time
    job_pc,         \* position of the running post_daily_news instance
    news,           \* local variable news of post_daily_news
    runs,           \* per date: runs of post_daily_news started
    digests,        \* per date: digest send_message calls issued
    evals,          \* instants at which the scheduler processed its jobs
    sched_log       \* what the scheduler and the job reported

pipe_vars == <<bot_username, msgs, pc, outcome, trigger, response, calls, logged,
              escaped>>
sched_vars == <<now, next_run_time, job_pc, news, runs, digests, evals, sched_log>>
vars == <<main_pc, bot_username, msgs, pc, outcome, trigger, response, calls, logged,
          escaped, now, next_run_time, job_pc, news, runs, digests, evals,
          sched_log>>

\* ------------------------------------------------------------- policies
\* handle_message: text = message.text or message.caption or ""
MessageText(m) == PyOr(PyOr(m.text, m.caption), Some(<<>>)).s

FromBot_NoCheck(m) == FALSE
\* handle_message: if update.message.from_user.is_bot: return
FromBot(m) == m.is_bot

NotTargetChat_Inverted(m) == Str(m.chat_id) = GROUP_CHAT_ID
\* handle_message: if chat_id != GROUP_CHAT_ID, with chat_id = str(message.chat_id)
NotTargetChat(m) == Str(m.chat_id) # GROUP_CHAT_ID

is_inappropriate_content(text) ==
    IF Len(text) = 0 THEN FALSE
    ELSE \E pattern \in inappropriate_patterns : Contains(lower(text), pattern)

TriggerKind_LengthLast(text, username) ==
    IF Truthy(username) /\ Contains(lower(text), <<"@">> \o username.s)
         THEN "mention"
    ELSE IF \E indicator \in question_indicators : Contains(lower(text), indicator)
         THEN "question"
    ELSE IF \E greeting \in greetings : Contains(lower(text), greeting)
         THEN "greeting"
    ELSE "silent"
TriggerKind_MentionAnyAt(text, username) ==
    IF Len(text) = 0 \/ Len(strip(text)) < MinLen THEN "silent"
    ELSE IF Contains(lower(text), <<"@">>) THEN "mention"
    ELSE IF \E indicator \in question_indicators : Contains(lower(text), indicator)
         THEN "question"
    ELSE IF \E greeting \in greetings : Contains(lower(text), greeting)
         THEN "greeting"
    ELSE "silent"
\* The check of should_respond that returns True first, "silent" when it
\* returns False.
TriggerKind(text, username) ==
    IF Len(text) = 0 \/ Len(strip(text)) < MinLen THEN "silent"
    ELSE IF Truthy(username) /\ Contains(lower(text), <<"@">> \o username.s)
         THEN "mention"
    ELSE IF \E indicator \in question_indicators : Contains(lower(text), indicator)
         THEN "question"
    ELSE IF \E greeting \in greetings : Contains(lower(text), greeting)
         THEN "greeting"
    ELSE "silent"

should_respond(text, username) == TriggerKind(text, username) # "silent"

\* generate_ai_response: the completion's content, stripped; None when the
\* call raises.
generate_ai_response(result) ==
    IF result.isNone THEN NoneVal ELSE Some(strip(result.s))

SendsReply_NotNone(resp) == ~resp.isNone
\* handle_message: if response:
SendsReply(resp) == Truthy(resp)

\* The except clause that catches an exception raised at a call site.
ExceptHandler(site) ==
    CASE site = "delete" -> "handle_inappropriate_content"
      [] site = "warn" -> "handle_inappropriate_content"
      [] site = "generate" -> "generate_ai_response"
      [] site = "reply" -> "handle_message"

GenerateArgs_Swapped(m) == <<m.first_name, MessageText(m)>>
\* handle_message: self.generate_ai_response(text, user.first_name)
GenerateArgs(m) == <<MessageText(m), m.first_name>>

AfterModeration_FallsThrough(m, username) ==
    IF should_respond(MessageText(m), username) THEN "generate" ELSE "done"
\* handle_message: the return that follows handle_inappropriate_content
AfterModeration(m, username) == "done"

PollingStarted_BeforeInit(p) == TRUE
\* main: run_polling is reached after initialize_bot and setup_scheduler
\* have returned
PollingStarted(p) == p = "run_polling"

CanProcess_Concurrent(i) == TRUE
\* Application.builder().token(...).build(): concurrent_updates is off and
\* the MessageHandler blocks, so an update is processed only when the
\* handler of every earlier update has returned.
CanProcess(i) == \A j \in 1..Len(msgs) : j # i => pc[j] \in {"queued", "done"}

\* ------------------------------------------------------------ wall clock
\* The instants of a day the model distinguishes.  An instant lies within
\* the scheduler's misfire grace (one second) after the start of its minute.
TimeSlots ==
    << [hour |-> 8, minute |-> 59], [hour |-> 9, minute |-> 0],
       [hour |-> 9, minute |-> 1], [hour |-> 10, minute |-> 0] >>
Instants == [day : 0..(MaxDay + 1), slot : 1..Len(TimeSlots)]
Earlier(a, b) == a.day < b.day \/ (a.day = b.day /\ a.slot < b.slot)
NoRunTime == [day |-> 0 - 1, slot |-> 1]

CronMatches_HourOnly(t) == t.hour = FireHour
\* CronTrigger(hour=9, minute=0): the fire times of the daily_news job
CronMatches(t) == t.hour = FireHour /\ t.minute = FireMinute
FireTimes == { i \in Instants : CronMatches(TimeSlots[i.slot]) }
\* trigger.get_next_fire_time: the first fire time after instant t
NextFireTime(t) ==
    CHOOSE f \in FireTimes :
        /\ Earlier(t, f)
        /\ \A g \in FireTimes : Earlier(t, g) => ~Earlier(g, f)
\* job._get_run_times(now), coalesced: the latest fire time that is due
DueRunTime(t) ==
    CHOOSE f \in FireTimes :
        /\ ~Earlier(t, f)
        /\ \A g \in FireTimes : ~Earlier(t, g) => ~Earlier(f, g)
Misfired_NoGrace(run_time, t) == FALSE
\* add_job without misfire_grace_time: a run later than the default grace
\* of one second is dropped
Misfired(run_time, t) == run_time # t

\* get_news_summary: the stripped completion wrapped in header and footer;
\* None when the call raises.
get_news_summary(result) ==
    IF result.isNone THEN NoneVal
    ELSE Some(<<"[Daily News Update]">> \o strip(result.s) \o <<"[#News #Update]">>)

\* ------------------------------------------------------------ initial state
Init ==
    /\ main_pc = "initialize_bot"
    /\ bot_username = NoneVal
    /\ msgs = <<>>
    /\ pc = <<>>
    /\ outcome = <<>>
    /\ trigger = <<>>
    /\ response = <<>>
    /\ calls = <<>>
    /\ logged = {}
    /\ escaped = {}
    /\ now = [day |-> 0, slot |-> 1]
    /\ next_run_time = NoRunTime
    /\ job_pc = "idle"
    /\ news = NoneVal
    /\ runs = [d \in 0..MaxDay |-> 0]
    /\ digests = [d \in 0..MaxDay |-> 0]
    /\ evals = {}
    /\ sched_log = {}

\* --------------------------------------------------------------- startup
\* initialize_bot: get_me() answers and the username is stored, or it
\* raises and the error is logged; set_bot_commands may raise after the
\* username was stored.
InitializeBot ==
    /\ main_pc = "initialize_bot"
    /\ \E ok \in BOOLEAN, u \in Usernames :
          bot_username' = IF ok THEN Some(u) ELSE bot_username
    /\ main_pc' = "setup_scheduler"
    /\ UNCHANGED <<msgs, pc, outcome, trigger, response, calls, logged, escaped>>
    /\ UNCHANGED sched_vars

\* ------------------------------------------------------ message handling
\* The dispatcher hands update i to handle_message.
Receive ==
    /\ PollingStarted(main_pc)
    /\ Len(msgs) < MaxMsgs
    /\ \E m \in Messages :
          /\ msgs' = Append(msgs, m)
          /\ pc' = Append(pc, "queued")
          /\ outcome' = Append(outcome, "none")
          /\ trigger' = Append(trigger, "none")
          /\ response' = Append(response, NoneVal)
    /\ UNCHANGED <<main_pc, bot_username, calls, logged, escaped>>
    /\ UNCHANGED sched_vars

\* An exception raised at a call site of update i's handler.
Raise(i, site) ==
    /\ pc' = [pc EXCEPT ![i] = IF site \in {"delete", "warn"}
                               THEN AfterModeration(msgs[i], bot_username)
                               ELSE "done"]
    /\ IF ExceptHandler(site) = "none"
       THEN /\ escaped' = escaped \cup {i}
            /\ logged' = logged
       ELSE /\ escaped' = escaped
            /\ logged' = logged \cup
                 {[level |-> "error", where |-> ExceptHandler(site), msg |-> i]}

\* handle_message up to its first call of a collaborator.
ProcessUpdate(i) ==
    /\ pc[i] = "queued"
    /\ \A j \in 1..(i - 1) : pc[j] # "queued"
    /\ CanProcess(i)
    /\ LET m == msgs[i]
           text == MessageText(m)
       IN IF FromBot(m) \/ NotTargetChat(m)
          THEN /\ pc' = [pc EXCEPT ![i] = "done"]
               /\ outcome' = [outcome EXCEPT ![i] = "Ignored"]
               /\ UNCHANGED trigger
          ELSE IF is_inappropriate_content(text)
          THEN /\ pc' = [pc EXCEPT ![i] = "delete"]
               /\ outcome' = [outcome EXCEPT ![i] = "Moderated"]
               /\ UNCHANGED trigger
          ELSE IF should_respond(text, bot_username)
          THEN /\ pc' = [pc EXCEPT ![i] = "generate"]
               /\ outcome' = [outcome EXCEPT ![i] = "Responded"]
               /\ trigger' = [trigger EXCEPT ![i] = TriggerKind(text, bot_username)]
          ELSE /\ pc' = [pc EXCEPT ![i] = "done"]
               /\ outcome' = [outcome EXCEPT ![i] = "Ignored"]
               /\ trigger' = [trigger EXCEPT ![i] = "silent"]
    /\ UNCHANGED <<main_pc, bot_username, msgs, response, calls, logged, escaped>>
    /\ UNCHANGED sched_vars

\* handle_inappropriate_content: await message.delete()
Delete(i) ==
    /\ pc[i] = "delete"
    /\ \E ok \in BOOLEAN :
          /\ calls' = Append(calls, [op |-> "delete", msg |-> i, ok |-> ok, result |-> NoneVal,
                                  args |-> <<>>])
          /\ IF ok
             THEN /\ pc' = [pc EXCEPT ![i] = "warn"]
                  /\ UNCHANGED <<logged, escaped>>
             ELSE Raise(i, "delete")
    /\ UNCHANGED <<main_pc, bot_username, msgs, outcome, trigger, response>>
    /\ UNCHANGED sched_vars

\* handle_inappropriate_content: await context.bot.send_message(warning_msg)
Warn(i) ==
    /\ pc[i] = "warn"
    /\ \E ok \in BOOLEAN :
          /\ calls' = Append(calls, [op |-> "warn", msg |-> i, ok |-> ok, result |-> NoneVal,
                                  args |-> <<>>])
          /\ IF ok
             THEN /\ pc' = [pc EXCEPT ![i] = AfterModeration(msgs[i], bot_username)]
                  /\ logged' = logged \cup
                       {[level |-> "info", where |-> "handle_inappropriate_content",
                         msg |-> i]}
                  /\ escaped' = escaped
             ELSE Raise(i, "warn")
    /\ UNCHANGED <<main_pc, bot_username, msgs, outcome, trigger, response>>
    /\ UNCHANGED sched_vars

\* handle_message: response = await self.generate_ai_response(text, name)
Generate(i) ==
    /\ pc[i] = "generate"
    /\ \E result \in {NoneVal} \cup {Some(c) : c \in GenContents} :
          LET resp == generate_ai_response(result) IN
          /\ calls' = Append(calls, [op |-> "generate", msg |-> i,
                                     ok |-> ~result.isNone, result |-> result,
                                     args |-> GenerateArgs(msgs[i])])
          /\ response' = [response EXCEPT ![i] = resp]
          /\ logged' = IF result.isNone
                       THEN logged \cup {[level |-> "error",
                                          where |-> ExceptHandler("generate"),
                                          msg |-> i]}
                       ELSE logged
          /\ pc' = [pc EXCEPT ![i] = IF SendsReply(resp) THEN "reply" ELSE "done"]
    /\ UNCHANGED <<main_pc, bot_username, msgs, outcome, trigger, escaped>>
    /\ UNCHANGED sched_vars

\* handle_message: await message.reply_text(response)
Reply(i) ==
    /\ pc[i] = "reply"
    /\ \E ok \in BOOLEAN :
          /\ calls' = Append(calls, [op |-> "reply", msg |-> i, ok |-> ok,
                                     result |-> response[i], args |-> <<>>])
          /\ IF ok
             THEN /\ pc' = [pc EXCEPT ![i] = "done"]
                  /\ UNCHANGED <<logged, escaped>>
             ELSE Raise(i, "reply")
    /\ UNCHANGED <<main_pc, bot_username, msgs, outcome, trigger, response>>
    /\ UNCHANGED sched_vars

\* ------------------------------------------------------------- scheduler
\* setup_scheduler: add_job(post_daily_news, CronTrigger(hour=9, minute=0))
\* and scheduler.start(), which computes the job's first run time and
\* processes the jobs once.
SetupScheduler ==
    /\ main_pc = "setup_scheduler"
    /\ main_pc' = "run_polling"
    /\ next_run_time' = NextFireTime(now)
    /\ evals' = evals \cup {now}
    /\ UNCHANGED <<now, job_pc, news, runs, digests, sched_log>>
    /\ UNCHANGED pipe_vars

\* Time passes.  A request of the job ends within its HTTP timeout, so no
\* instance of the job is in flight when the date changes.
Tick ==
    /\ IF now.slot < Len(TimeSlots)
       THEN now' = [now EXCEPT !.slot = now.slot + 1]
       ELSE /\ now.day < MaxDay
            /\ job_pc = "idle"
            /\ now' = [day |-> now.day + 1, slot |-> 1]
    /\ UNCHANGED <<main_pc, next_run_time, job_pc, news, runs, digests, evals,
                   sched_log>>
    /\ UNCHANGED pipe_vars

\* The scheduler's wake-up for a due job: _process_jobs and the start of the
\* submitted run.
ProcessJobs ==
    /\ main_pc = "run_polling"
    /\ ~Earlier(now, next_run_time)
    /\ evals' = evals \cup {now}
    /\ next_run_time' = NextFireTime(now)
    /\ LET run_time == DueRunTime(now) IN
       IF job_pc # "idle"
       THEN /\ sched_log' = sched_log \cup {[ev |-> "max_instances", day |-> now.day]}
            /\ UNCHANGED <<job_pc, runs>>
       ELSE IF Misfired(run_time, now)
       THEN /\ sched_log' = sched_log \cup {[ev |-> "missed", day |-> run_time.day]}
            /\ UNCHANGED <<job_pc, runs>>
       ELSE /\ job_pc' = "get_news"
            /\ runs' = [runs EXCEPT ![now.day] = @ + 1]
            /\ sched_log' = sched_log \cup {[ev |-> "run", day |-> now.day]}
    /\ UNCHANGED <<main_pc, now, news, digests>>
    /\ UNCHANGED pipe_vars

\* post_daily_news: news = await self.get_news_summary()
GetNews ==
    /\ job_pc = "get_news"
    /\ \E result \in {NoneVal} \cup {Some(c) : c \in GenContents} :
          /\ news' = get_news_summary(result)
          /\ IF Truthy(news')
             THEN /\ job_pc' = "send"
                  /\ sched_log' = sched_log \cup
                       {[ev |-> IF Len(strip(result.s)) = 0
                                THEN "generated_nothing" ELSE "generated",
                         day |-> now.day]}
             ELSE /\ job_pc' = "idle"
                  /\ sched_log' = sched_log \cup
                       {[ev |-> "gen_failed", day |-> now.day]}
    /\ UNCHANGED <<main_pc, now, next_run_time, runs, digests, evals>>
    /\ UNCHANGED pipe_vars

\* post_daily_news: await context.bot.send_message(GROUP_CHAT_ID, news)
SendNews ==
    /\ job_pc = "send"
    /\ \E ok \in BOOLEAN :
          sched_log' = sched_log \cup
              {[ev |-> IF ok THEN "posted" ELSE "send_failed", day |-> now.day]}
    /\ digests' = [digests EXCEPT ![now.day] = @ + 1]
    /\ job_pc' = "idle"
    /\ UNCHANGED <<main_pc, now, next_run_time, news, runs, evals>>
    /\ UNCHANGED pipe_vars

\* ---------------------------------------------------------- specifications
Next ==
    \/ InitializeBot
    \/ SetupScheduler
    \/ Receive
    \/ \E i \in 1..Len(msgs) : ProcessUpdate(i)
    \/ \E i \in 1..Len(msgs) : Delete(i)
    \/ \E i \in 1..Len(msgs) : Warn(i)
    \/ \E i \in 1..Len(msgs) : Generate(i)
    \/ \E i \in 1..Len(msgs) : Reply(i)

Spec == Init /\ [][Next]_vars

SchedNext ==
    \/ InitializeBot
    \/ SetupScheduler
    \/ Tick
    \/ ProcessJobs
    \/ GetNews
    \/ SendNews

SchedSpec == Init /\ [][SchedNext]_vars

\* ------------------------------------------------- vocabulary of the claims
CallsOf(i, op) == { k \in 1..Len(calls) : calls[k].msg = i /\ calls[k].op = op }
AnyCallOf(i) == { k \in 1..Len(calls) : calls[k].msg = i }
InTarget(m) == m.chat_id = TargetChatId
\* The texts and usernames of the model; the predicates on them are
\* tabulated once.
AllTexts == { MessageText(m) : m \in Messages }
AllUsernames == {NoneVal} \cup { Some(u) : u \in Usernames }
\* the text has a spam literal at some offset, letter case ignored
SpamLiteralIn(t) ==
    \E p \in inappropriate_patterns :
        \E off \in 0..(Len(t) - Len(p)) :
            \A k \in 1..Len(p) : LowerChar(t[off + k]) = p[k]
SpamTable == [t \in AllTexts |-> SpamLiteralIn(t)]
HasSpamLiteral(t) == SpamTable[t]
Flagged(i) ==
    /\ ~msgs[i].is_bot
    /\ InTarget(msgs[i])
    /\ HasSpamLiteral(MessageText(msgs[i]))
DeleteFailed(i) == \E k \in CallsOf(i, "delete") : ~calls[k].ok
ErrorLogged(i) == \E r \in logged : r.level = "error" /\ r.msg = i
AnyCallFailed(i) == \E k \in AnyCallOf(i) : ~calls[k].ok
GenFailed(i) == \E k \in CallsOf(i, "generate") : calls[k].result.isNone
GenEmpty(i) ==
    \E k \in CallsOf(i, "generate") :
        ~calls[k].result.isNone /\ Len(calls[k].result.s) = 0
NoSideEffects(i) ==
    /\ pc[i] \in {"queued", "done"}
    /\ outcome[i] \in {"none", "Ignored"}
    /\ pc[i] = "done" => outcome[i] = "Ignored"
    /\ AnyCallOf(i) = {}

\* ----------------------------------------------------------------- claims
\* C1: every in-scope, non-bot message with a spam literal ends Moderated:
\* a delete is attempted and then a warning is sent, the delete precedes the
\* warning, and no reply is generated or sent for it.
C1_SpamDeletedThenWarned ==
    \A i \in 1..Len(msgs) :
        (Flagged(i) /\ pc[i] = "done") =>
            /\ outcome[i] = "Moderated"
            /\ CallsOf(i, "delete") # {}
            /\ CallsOf(i, "warn") # {}
            /\ \A w \in CallsOf(i, "warn") : \E d \in CallsOf(i, "delete") : d < w
            /\ CallsOf(i, "generate") = {}
            /\ CallsOf(i, "reply") = {}

\* The part of C1 that does not depend on the delete succeeding: a flagged
\* message is Moderated, its delete is attempted before any warning, and no
\* reply is generated or sent.
C1_ModerationPreemptsResponse ==
    \A i \in 1..Len(msgs) :
        (Flagged(i) /\ pc[i] = "done") =>
            /\ outcome[i] = "Moderated"
            /\ CallsOf(i, "delete") # {}
            /\ \A w \in CallsOf(i, "warn") : \E d \in CallsOf(i, "delete") : d < w
            /\ CallsOf(i, "generate") = {}
            /\ CallsOf(i, "reply") = {}

\* C2: when the delete of a flagged message fails, the warning is still
\* sent, and the failure is logged instead of raised out of the handler.
C2_WarningSentAfterFailedDelete ==
    \A i \in 1..Len(msgs) :
        (pc[i] = "done" /\ DeleteFailed(i)) =>
            /\ CallsOf(i, "warn") # {}
            /\ ErrorLogged(i)
            /\ i \notin escaped

\* The part of C2 the code keeps: a failed delete is logged, not raised.
C2_FailedDeleteLoggedNotRaised ==
    \A i \in 1..Len(msgs) :
        DeleteFailed(i) => (pc[i] = "done" /\ ErrorLogged(i) /\ i \notin escaped)

\* C3: a message authored by a bot is Ignored whatever its text and chat:
\* no delete, no warning, no generator call, no reply.
C3_BotMessagesIgnored ==
    \A i \in 1..Len(msgs) : msgs[i].is_bot => NoSideEffects(i)

C3_Witness ==
    \E i \in 1..Len(msgs), j \in 1..Len(msgs) :
        /\ msgs[i].is_bot /\ InTarget(msgs[i]) /\ pc[i] = "done"
        /\ HasSpamLiteral(MessageText(msgs[i]))
        /\ msgs[j].is_bot /\ InTarget(msgs[j]) /\ pc[j] = "done"
        /\ MessageText(msgs[j]) = TxtGreeting

\* C4: a message of another chat than the target chat is Ignored whatever
\* its text: no delete, no warning, no generator call, no reply.
C4_OtherChatsIgnored ==
    \A i \in 1..Len(msgs) : ~InTarget(msgs[i]) => NoSideEffects(i)

C4_Witness ==
    \E i \in 1..Len(msgs), j \in 1..Len(msgs) :
        /\ ~msgs[i].is_bot /\ ~InTarget(msgs[i]) /\ pc[i] = "done"
        /\ MessageText(msgs[i]) = TxtSpamQuestion
        /\ ~msgs[j].is_bot /\ ~InTarget(msgs[j]) /\ pc[j] = "done"
        /\ MessageText(msgs[j]) = TxtGreeting

\* C8: when the handler decided to respond and the generator fails or
\* returns an empty result, the message still ends Responded, no reply is
\* sent and nothing else is sent to the chat for it.
C8_NoReplyWithoutGeneratedText ==
    \A i \in 1..Len(msgs) :
        (GenFailed(i) \/ GenEmpty(i)) =>
            /\ pc[i] = "done"
            /\ outcome[i] = "Responded"
            /\ CallsOf(i, "reply") = {}
            /\ CallsOf(i, "warn") = {}
            /\ i \notin escaped

C8_Witness ==
    \E i \in 1..Len(msgs), j \in 1..Len(msgs) :
        /\ GenFailed(i) /\ pc[i] = "done"
        /\ GenEmpty(j) /\ pc[j] = "done"

\* C9: a collaborator failure while handling a message never escapes the
\* handler: the handler returns, only the failing action is skipped (a
\* failed delete does not take the warning with it), and the messages that
\* follow are processed.
C9_FailuresRecoveredLocally ==
    \A i \in 1..Len(msgs) :
        AnyCallFailed(i) =>
            /\ pc[i] = "done"
            /\ i \notin escaped
            /\ DeleteFailed(i) => CallsOf(i, "warn") # {}
            /\ \A j \in (i + 1)..Len(msgs) :
                   (pc[j] = "queued" /\ \A k \in 1..(j - 1) : pc[k] = "done")
                       => CanProcess(j)

\* The part of C9 the code keeps: no failure escapes a handler, the handler
\* returns, and the following message can be processed.
C9_NoFailureEscapes ==
    /\ escaped = {}
    /\ \A i \in 1..Len(msgs) :
        AnyCallFailed(i) =>
            /\ pc[i] = "done"
            /\ \A j \in (i + 1)..Len(msgs) :
                   (pc[j] = "queued" /\ \A k \in 1..(j - 1) : pc[k] = "done")
                       => CanProcess(j)

\* C10: when two flagged messages arrive in the order a then b, both
\* moderation calls of a are issued before any moderation call of b.
ModCalls(i) == CallsOf(i, "delete") \cup CallsOf(i, "warn")
C10_ModerationKeepsArrivalOrder ==
    \A a \in 1..Len(msgs), b \in 1..Len(msgs) :
        (a < b /\ Flagged(a) /\ Flagged(b) /\ ModCalls(b) # {}) =>
            /\ pc[a] = "done"
            /\ \A ka \in ModCalls(a), kb \in ModCalls(b) : ka < kb

C10_Witness ==
    \E a \in 1..Len(msgs), b \in 1..Len(msgs) :
        /\ a < b /\ Flagged(a) /\ Flagged(b)
        /\ CallsOf(a, "warn") # {} /\ CallsOf(b, "warn") # {}
        /\ pc[b] = "done"

\* ------------------------------------------------ claims on the daily job
Dates == 0..MaxDay
\* the instant reports a time of day at or after the configured fire time
AtOrAfterFireTime(e) ==
    \/ TimeSlots[e.slot].hour > FireHour
    \/ TimeSlots[e.slot].hour = FireHour /\ TimeSlots[e.slot].minute >= FireMinute
AtFireTime(e) ==
    TimeSlots[e.slot].hour = FireHour /\ TimeSlots[e.slot].minute = FireMinute
Reported(ev, d) == [ev |-> ev, day |-> d] \in sched_log

C6_FailedDigestStaysDue ==
    \A d \in Dates :
        (Reported("gen_failed", d) /\ digests[d] = 0) => next_run_time.day <= d

\* C7: whatever the interleaving of the evaluations of one date, at most
\* one of them runs the job and at most one digest is sent for the date.
C7_AtMostOneDigestPerDate ==
    \A d \in Dates :
        /\ runs[d] <= 1
        /\ digests[d] <= 1
        /\ digests[d] <= runs[d]

C7_Witness ==
    \E d \in Dates :
        /\ digests[d] = 1
        /\ Cardinality({ e \in evals : e.day = d }) >= 2

\* --------------------------------------- vocabulary of the trigger claims
Processed(i) == pc[i] # "queued"
Clean(i) ==
    /\ ~msgs[i].is_bot
    /\ InTarget(msgs[i])
    /\ ~HasSpamLiteral(MessageText(msgs[i]))
LongEnoughTable == [t \in AllTexts |-> Len(strip(t)) >= MinLen]
LongEnough(t) == LongEnoughTable[t]
\* the text has "@" followed by the bot's username, letter case ignored
MentionsTable ==
    [t \in AllTexts, u \in AllUsernames |->
        ~u.isNone /\ Contains(lower(t), lower(<<"@">> \o u.s))]
Mentions(t, u) == MentionsTable[t, u]
\* the text has "@" followed by the username exactly as get_me reported it
MentionsAsReportedTable ==
    [t \in AllTexts, u \in AllUsernames |->
        ~u.isNone /\ Contains(t, <<"@">> \o u.s)]
MentionsAsReported(t, u) == MentionsAsReportedTable[t, u]
QuestionTable ==
    [t \in AllTexts |-> \E q \in question_indicators : Contains(lower(t), q)]
HasQuestion(t) == QuestionTable[t]
GreetingTable ==
    [t \in AllTexts |-> \E g \in greetings : Contains(lower(t), g)]
HasGreeting(t) == GreetingTable[t]
IsLowercase(u) == u.isNone \/ lower(u.s) = u.s

\* C11: the response triggers are tried in the order mention, reply_chain,
\* question, greeting and the first match names the trigger: mention and
\* question is a mention, question and greeting is a question.
C11_TriggerPriority ==
    \A i \in 1..Len(msgs) :
        LET t == MessageText(msgs[i]) IN
        (Clean(i) /\ Processed(i) /\ LongEnough(t)) =>
            trigger[i] =
                IF Mentions(t, bot_username) THEN "mention"
                ELSE IF msgs[i].reply_to_bot THEN "reply_chain"
                ELSE IF HasQuestion(t) THEN "question"
                ELSE IF HasGreeting(t) THEN "greeting"
                ELSE "silent"

\* The part of C11 the code keeps: for a lowercase username and a message
\* that is no reply to the bot, mention wins over question and question
\* wins over greeting.
C11_PriorityOfTheCodeChecks ==
    \A i \in 1..Len(msgs) :
        LET t == MessageText(msgs[i]) IN
        (Clean(i) /\ Processed(i) /\ LongEnough(t) /\ IsLowercase(bot_username)
           /\ ~msgs[i].reply_to_bot) =>
            trigger[i] =
                IF Mentions(t, bot_username) THEN "mention"
                ELSE IF HasQuestion(t) THEN "question"
                ELSE IF HasGreeting(t) THEN "greeting"
                ELSE "silent"

\* C12: a clean in-scope message with a bot-directed greeting and no
\* mention, reply-chain or question trigger is Responded(greeting), however
\* short it is, and the generator is called exactly once, with the message
\* text and the author's first name.
C12_GreetingAnswered ==
    \A i \in 1..Len(msgs) :
        LET t == MessageText(msgs[i]) IN
        ( /\ Clean(i) /\ Processed(i) /\ HasGreeting(t)
          /\ ~Mentions(t, bot_username) /\ ~msgs[i].reply_to_bot /\ ~HasQuestion(t) )
        =>  /\ outcome[i] = "Responded"
            /\ trigger[i] = "greeting"
            /\ Cardinality(CallsOf(i, "generate")) <= 1
            /\ pc[i] # "generate" => Cardinality(CallsOf(i, "generate")) = 1
            /\ \A k \in CallsOf(i, "generate") :
                   calls[k].args = <<t, msgs[i].first_name>>

C12_Witness ==
    \E i \in 1..Len(msgs) :
        /\ Clean(i) /\ pc[i] = "done"
        /\ MessageText(msgs[i]) = TxtGreeting
        /\ msgs[i].first_name = NameBo
        /\ CallsOf(i, "reply") # {}

\* C13: a clean in-scope message of at least the minimum length that
\* replies to a message of the bot gets a generated reply as reply_chain,
\* also without mention, question or greeting in its text.
C13_ReplyToBotAnswered ==
    \A i \in 1..Len(msgs) :
        LET t == MessageText(msgs[i]) IN
        ( /\ Clean(i) /\ Processed(i) /\ LongEnough(t) /\ msgs[i].reply_to_bot
          /\ ~Mentions(t, bot_username) /\ ~HasQuestion(t) /\ ~HasGreeting(t) )
        =>  /\ outcome[i] = "Responded"
            /\ trigger[i] = "reply_chain"

\* C14: a message whose trimmed text is shorter than the threshold is
\* Silent with no generator call, whatever trigger its text has; moderation
\* is not subject to the length check, so a short spam text is moderated.
C14_ShortTextsSilentButModerated ==
    \A i \in 1..Len(msgs) :
        LET t == MessageText(msgs[i]) IN
        ( /\ ~msgs[i].is_bot /\ InTarget(msgs[i]) /\ Processed(i)
          /\ ~LongEnough(t) )
        =>  IF HasSpamLiteral(t)
            THEN /\ outcome[i] = "Moderated"
                 /\ pc[i] = "delete" \/ CallsOf(i, "delete") # {}
                 /\ CallsOf(i, "generate") = {}
            ELSE /\ outcome[i] = "Ignored"
                 /\ trigger[i] = "silent"
                 /\ AnyCallOf(i) = {}

C14_Witness ==
    \E i \in 1..Len(msgs), j \in 1..Len(msgs) :
        /\ Clean(i) /\ pc[i] = "done"
        /\ MessageText(msgs[i]) \in {TxtShortQ, TxtPadded}
        /\ Flagged(j) /\ pc[j] = "done"
        /\ MessageText(msgs[j]) = TxtShortSpam
        /\ CallsOf(j, "warn") # {}

\* C15: while the bot username is unset no message is classified as a
\* mention and no handler raises; a message with "@name" in it is
\* classified by the question and greeting checks alone.
C15_NoMentionWithoutUsername ==
    bot_username.isNone =>
        \A i \in 1..Len(msgs) :
            LET t == MessageText(msgs[i]) IN
            /\ trigger[i] # "mention"
            /\ i \notin escaped
            /\ (Clean(i) /\ Processed(i) /\ LongEnough(t)) =>
                   /\ trigger[i] = IF HasQuestion(t) THEN "question"
                                   ELSE IF HasGreeting(t) THEN "greeting"
                                   ELSE "silent"
                   /\ outcome[i] =
                        IF trigger[i] = "silent" THEN "Ignored" ELSE "Responded"

C15_Witness ==
    /\ bot_username.isNone
    /\ \E i \in 1..Len(msgs), j \in 1..Len(msgs) :
        /\ Clean(i) /\ pc[i] = "done" /\ MessageText(msgs[i]) = TxtMention
        /\ Clean(j) /\ pc[j] = "done" /\ MessageText(msgs[j]) = TxtMentionQuestion
        /\ CallsOf(j, "reply") # {}

\* C16: the bot username is written only by the startup handshake; no
\* update is received or handled before the handshake has ended, and the
\* username never changes afterwards.
C16_UsernameFixedBeforeHandling ==
    [][ /\ main_pc # "initialize_bot" => bot_username' = bot_username
        /\ (msgs' # msgs \/ pc' # pc) => main_pc # "initialize_bot" ]_vars

C16_Witness ==
    /\ ~bot_username.isNone
    /\ \E i \in 1..Len(msgs), j \in 1..Len(msgs) :
        /\ i < j
        /\ trigger[i] = "mention" /\ pc[i] = "done"
        /\ trigger[j] = "mention" /\ pc[j] = "done"

\* C17: a message has one outcome, and its side effects exclude each
\* other: never moderation together with a generated reply, at most one
\* delete, one warning, one generator call and one reply.
C17_OneOutcomeExclusiveEffects ==
    \A i \in 1..Len(msgs) :
        /\ outcome[i] \in {"none", "Ignored", "Moderated", "Responded"}
        /\ outcome[i] = "none" <=> pc[i] = "queued"
        /\ ~(ModCalls(i) # {} /\ CallsOf(i, "generate") \cup CallsOf(i, "reply") # {})
        /\ outcome[i] \in {"none", "Ignored"} => AnyCallOf(i) = {}
        /\ outcome[i] = "Moderated" =>
               CallsOf(i, "generate") \cup CallsOf(i, "reply") = {}
        /\ outcome[i] = "Responded" => ModCalls(i) = {}
        /\ \A op \in {"delete", "warn", "generate", "reply"} :
               Cardinality(CallsOf(i, op)) <= 1

C17_Witness ==
    \E i \in 1..Len(msgs), j \in 1..Len(msgs) :
        /\ outcome[i] = "Moderated" /\ pc[i] = "done" /\ CallsOf(i, "warn") # {}
        /\ MessageText(msgs[i]) = TxtSpamQuestion
        /\ outcome[j] = "Responded" /\ pc[j] = "done" /\ CallsOf(j, "reply") # {}

\* C19: with the username set, a clean in-scope message of at least the
\* minimum length that has "@" followed by the username as reported is
\* classified as a mention, for usernames with uppercase letters too.
C19_MentionDetectedForEveryUsername ==
    \A i \in 1..Len(msgs) :
        LET t == MessageText(msgs[i]) IN
        ( /\ Clean(i) /\ Processed(i) /\ LongEnough(t)
          /\ MentionsAsReported(t, bot_username) )
        => trigger[i] = "mention"

\* The part of C19 the code keeps: for a lowercase username the mention is
\* detected whatever the letter case in the message.
C19_MentionDetectedForLowercaseUsername ==
    \A i \in 1..Len(msgs) :
        LET t == MessageText(msgs[i]) IN
        ( /\ Clean(i) /\ Processed(i) /\ LongEnough(t)
          /\ IsLowercase(bot_username) /\ Mentions(t, bot_username) )
        => trigger[i] = "mention"

\* C18: when the digest fires and the generation fails or yields nothing,
\* nothing is sent for that firing; a digest is sent only with generated
\* text.
C18_NoDigestWithoutGeneratedText ==
    \A d \in Dates :
        (Reported("gen_failed", d) \/ Reported("generated_nothing", d))
            => digests[d] = 0

\* The part of C18 the code keeps: after a generation that raised nothing
\* is sent for the date.
C18_NoDigestAfterFailedGeneration ==
    \A d \in Dates : Reported("gen_failed", d) => digests[d] = 0
====
